---------------------------- MODULE Spec2Model ----------------------------
(***************************************************************************)
(* Vosk STT backend (src/vosk-stt): the subtitle segmentation algorithm    *)
(* SubtitleGenerator.segment_into_lines and the request handlers           *)
(* transcribe_upload / transcribe_from_url that drive one transcription    *)
(* job through convert -> transcribe -> generate -> commit.                *)
(*                                                                         *)
(* Times are integers (one unit = one tick of the recogniser's clock);     *)
(* only differences and comparisons of times are used by the code.         *)
(* A word's text is a sequence of one-character strings, so that           *)
(* str.strip, ' '.join and str.split(' ') are computed, not assumed.       *)
(***************************************************************************)
EXTENDS Integers, Sequences, FiniteSets, TLC

VARIABLES
    words,       \* segment_into_lines: the argument `words`
    generator,   \* the SubtitleGenerator instance (`self`)
    lines,       \* segment_into_lines: the returned list
    seg_pc,      \* "call" before segment_into_lines ran, "done" after it returned
    pc,          \* per request: where its handler stands
    request,     \* per request: what it carries
    db,          \* per job: the committed row of the subtitles table
    session,     \* per request: the Subtitle object held by its SQLAlchemy session
    files,       \* per job: its files in the upload, processed and subtitles folders
    transcribe_result, \* per request: the words the recogniser returned
    calls,       \* per job (history): the stages invoked so far and how each ended
    response,    \* per request: the response returned to the caller
    transcriber, \* app.py's global _transcriber: None or a VoskTranscriber
    instances,   \* the VoskTranscriber objects constructed so far (their .model)
    models,      \* how many times vosk.Model(model_path) has been loaded
    t_pc,        \* per thread: where it stands in get_transcriber / load_model
    t_self,      \* per thread: the transcriber get_transcriber returned to it
    offset,      \* format_timestamp_*: the argument, in whole milliseconds
    timestamp,   \* format_timestamp_*: the two strings returned for `offset`
    json_metadata, \* generate_json: the argument `metadata`
    json_data    \* generate_json: the returned document

segVars == <<words, generator, lines, seg_pc>>

jobVars == <<pc, request, db, session, files, transcribe_result, calls, response>>

lazyVars == <<transcriber, instances, models, t_pc, t_self>>

fmtVars == <<offset, timestamp>>

jsonVars == <<json_metadata, json_data>>

vars == <<segVars, jobVars, lazyVars, fmtVars, jsonVars>>

(***************************************************************************)
(* Bounds of the model                                                     *)
(***************************************************************************)
MaxWords == 3          \* longest input word list
MaxTime == 2           \* latest time stamp of an input word
MaxWordsPerLine == 2   \* largest words_per_line a generator is built with
NumThreads == 3        \* request threads that use the recogniser for the first time
MaxOffset == 1500      \* largest offset, in milliseconds, of the range of offsets formatted

(***************************************************************************)
(* Inputs                                                                  *)
(***************************************************************************)
\* Word texts: whitespace-only, plain, sentence-ending, and one that
\* carries a space of its own (non-blank for str.strip, kept unstripped).
Texts == { <<" ">>, <<"a">>, <<"b", ".">>, <<" ", "c">> }

\* Texts of the word lists whose words overlap in time.
PlainTexts == { <<" ">>, <<"a">> }

\* pause_threshold, max_line_duration and min_line_duration values a
\* generator is built with.
PauseThresholds == {1, 2}
MaxLineDurations == {1, 2}
MinLineDurations == {1, 2}

\* The <<start, end>> pairs of n words in chronological order from time
\* `from` on, each word ending no earlier than it starts.  Spans: no word
\* starts before the word before it has ended (the recogniser's contract).
\* OverlapSpans: a word starts no earlier than the word before it starts.
RECURSIVE Spans(_, _)
Spans(n, from) ==
    IF n = 0 THEN { <<>> }
    ELSE UNION { UNION {
            { << <<s, e>> >> \o rest : rest \in Spans(n - 1, e) }
            : e \in s..MaxTime } : s \in from..MaxTime }

RECURSIVE OverlapSpans(_, _)
OverlapSpans(n, from) ==
    IF n = 0 THEN { <<>> }
    ELSE UNION { UNION {
            { << <<s, e>> >> \o rest : rest \in OverlapSpans(n - 1, s) }
            : e \in s..MaxTime } : s \in from..MaxTime }

MakeWords(texts, spans) ==
    [ i \in 1..Len(spans) |->
        [ word |-> texts[i], start |-> spans[i][1], end |-> spans[i][2] ] ]

\* The input word lists of at most MaxWords words: non-overlapping words
\* with any text, or possibly overlapping words with plain texts.
IsWordList(ws) ==
    \E n \in 0..MaxWords :
        \/ \E sp \in Spans(n, 0) : \E tx \in [1..n -> Texts] :
               ws = MakeWords(tx, sp)
        \/ \E sp \in OverlapSpans(n, 0) : \E tx \in [1..n -> PlainTexts] :
               ws = MakeWords(tx, sp)

Generators ==
    [ words_per_line : 1..MaxWordsPerLine,
      min_line_duration : MinLineDurations,
      max_line_duration : MaxLineDurations,
      pause_threshold : PauseThresholds ]

(***************************************************************************)
(* Python helpers                                                          *)
(***************************************************************************)
\* dict.get(key, default)
Get(d, key, default) == IF key \in DOMAIN d THEN d[key] ELSE default

\* `not word.strip()`: nothing is left once whitespace is stripped
IsBlank(word) == \A k \in 1..Len(word) : word[k] = " "

\* ' '.join(current_line)
RECURSIVE Join(_)
Join(ws) ==
    IF Len(ws) = 0 THEN <<>>
    ELSE IF Len(ws) = 1 THEN ws[1]
    ELSE ws[1] \o <<" ">> \o Join(Tail(ws))

(***************************************************************************)
(* SubtitleGenerator.segment_into_lines                                    *)
(*                                                                         *)
(* The loop state is [lines, current_line, line_start]; `members` (of the  *)
(* open buffer) and the `members` field of a line are history: the input   *)
(* positions of the words the line was built from.  The code's 0-based     *)
(* index i is i - 1 here (sequences are 1-based).                          *)
(***************************************************************************)
None == -1

\* 1. pause between words (lines 78-82)
PauseBreak(self, ws, i, start) ==
    i - 1 > 0 /\ start - Get(ws[i - 1], "end", 0) >= self.pause_threshold

\* 2. word count limit (lines 85-86)
CountBreakLoose(self, st) == Len(st.current_line) > self.words_per_line
CountBreak(self, st) == Len(st.current_line) >= self.words_per_line

\* 3. max duration (lines 89-91)
DurationBreakOff(self, st, end) == FALSE
DurationBreak(self, st, end) == end - st.line_start >= self.max_line_duration

\* 4. sentence-ending punctuation (lines 94-96)
PunctuationBreakOff(st) == FALSE
PunctuationBreak(st) ==
    LET prev_word == IF Len(st.current_line) > 0
                     THEN st.current_line[Len(st.current_line)] ELSE <<>>
    IN  Len(prev_word) > 0 /\ prev_word[Len(prev_word)] \in {".", "!", "?"}

\* a break held back until the buffer has lasted min_line_duration
should_breakAfterMin(self, ws, i, st, start, end) ==
    /\ \/ PauseBreak(self, ws, i, start)
       \/ CountBreak(self, st)
       \/ DurationBreak(self, st, end)
       \/ PunctuationBreak(st)
    /\ Get(ws[i - 1], "end", 0) - st.line_start >= self.min_line_duration

should_break(self, ws, i, st, start, end) ==
    \/ PauseBreak(self, ws, i, start)
    \/ CountBreak(self, st)
    \/ DurationBreak(self, st, end)
    \/ PunctuationBreak(st)

\* the dict appended to `lines` (lines 101-106 and 116-121)
NewLineSwapped(st, line_end, start) ==
    [ index |-> Len(st.lines) + 1, start |-> start, end |-> line_end,
      text |-> Join(st.current_line), members |-> st.members ]
NewLineFromZero(st, line_end, start) ==
    [ index |-> Len(st.lines), start |-> st.line_start, end |-> line_end,
      text |-> Join(st.current_line), members |-> st.members ]
NewLine(st, line_end, start) ==
    [ index |-> Len(st.lines) + 1, start |-> st.line_start, end |-> line_end,
      text |-> Join(st.current_line), members |-> st.members ]

\* the buffer after a break (lines 108-109)
RestartEmpty(st, closed, word, start, i) ==
    [ lines |-> Append(st.lines, closed), current_line |-> <<>>,
      line_start |-> start, members |-> <<>> ]
RestartKeepStart(st, closed, word, start, i) ==
    [ lines |-> Append(st.lines, closed), current_line |-> << word >>,
      line_start |-> st.line_start, members |-> << i >> ]
Restart(st, closed, word, start, i) ==
    [ lines |-> Append(st.lines, closed), current_line |-> << word >>,
      line_start |-> start, members |-> << i >> ]

\* one iteration of the for loop (lines 59-111)
LoopBody(self, ws, i, st) ==
    LET word  == Get(ws[i], "word", <<>>)
        start == Get(ws[i], "start", 0)
        end   == Get(ws[i], "end", 0)
    IN  IF IsBlank(word) THEN st
        ELSE IF Len(st.current_line) = 0
        THEN [ st EXCEPT !.line_start = start,
                         !.current_line = << word >>,
                         !.members = << i >> ]
        ELSE IF should_break(self, ws, i, st, start, end) /\ Len(st.current_line) > 0
        THEN LET prev_end == Get(ws[i - 1], "end", st.line_start + 1)
             IN  Restart(st, NewLine(st, prev_end, start), word, start, i)
        ELSE [ st EXCEPT !.current_line = Append(@, word),
                         !.members = Append(@, i) ]

RECURSIVE Loop(_, _, _, _)
Loop(self, ws, i, st) ==
    IF i > Len(ws) THEN st ELSE Loop(self, ws, i + 1, LoopBody(self, ws, i, st))

segment_into_lines(self, ws) ==
    IF Len(ws) = 0 THEN <<>>
    ELSE LET st == Loop(self, ws, 1,
                        [ lines |-> <<>>, current_line |-> <<>>,
                          line_start |-> None, members |-> <<>> ])
         IN  IF Len(st.current_line) > 0
             THEN LET last_end == Get(ws[Len(ws)], "end", st.line_start + 1)
                  IN  Append(st.lines, NewLine(st, last_end, st.line_start))
             ELSE st.lines

(***************************************************************************)
(* SubtitleGenerator.generate_json                                         *)
(***************************************************************************)
\* {**a, **b} read the other way round: a's value where both have the key
MergeKeepFirst(a, b) ==
    [ k \in (DOMAIN a) \cup (DOMAIN b) |-> IF k \in DOMAIN a THEN a[k] ELSE b[k] ]

\* {**a, **b}: the keys of both, b's value where both have the key
Merge(a, b) ==
    [ k \in (DOMAIN a) \cup (DOMAIN b) |-> IF k \in DOMAIN b THEN b[k] ELSE a[k] ]

\* lines 222-227
total_duration(ls, ws) ==
    IF Len(ls) > 0 THEN ls[Len(ls)].end
    ELSE IF Len(ws) > 0 THEN Get(ws[Len(ws)], "end", 0)
    ELSE 0

\* lines 229-237; `metadata or {}` is the empty mapping <<>> here
generate_json(ls, ws, metadata) ==
    [ lines |-> ls,
      metadata |-> Merge([ total_lines |-> Len(ls),
                           total_words |-> Len(ws),
                           duration |-> total_duration(ls, ws) ], metadata) ]

\* no document has been asked for
JsonIdle ==
    /\ json_metadata = <<>>
    /\ json_data = <<>>

(***************************************************************************)
(* SubtitleGenerator.format_timestamp_srt / format_timestamp_vtt           *)
(*                                                                         *)
(* The argument `seconds` is the float nearest to offset/1000.  Python     *)
(* floats are IEEE-754 doubles: 53 significant bits, every operation       *)
(* rounded to the nearest double, ties to the even one.  The operators     *)
(* below compute the result of the code's float expressions exactly, in    *)
(* integer arithmetic.                                                     *)
(***************************************************************************)
RECURSIVE Pow2(_)
Pow2(n) == IF n = 0 THEN 1 ELSE 2 * Pow2(n - 1)

\* 2^n mod m
RECURSIVE Pow2Mod(_, _)
Pow2Mod(n, m) == IF n = 0 THEN 1 % m ELSE (2 * Pow2Mod(n - 1, m)) % m

\* floor(log2(n)) for n >= 1
RECURSIVE Log2(_)
Log2(n) == IF n < 2 THEN 0 ELSE 1 + Log2(n \div 2)

\* The binary exponent of the float t/1000, t >= 1: the e with
\* 2^e <= t/1000 < 2^(e+1).
RECURSIVE ExponentUp(_, _)
ExponentUp(t, e) == IF t < 1000 * Pow2(e + 1) THEN e ELSE ExponentUp(t, e + 1)

RECURSIVE ExponentDown(_, _)
ExponentDown(t, n) == IF t * Pow2(n) >= 1000 THEN 0 - n ELSE ExponentDown(t, n + 1)

Exponent(t) == IF t >= 1000 THEN ExponentUp(t, 0) ELSE ExponentDown(t, 1)

\* The float `seconds` is M * 2^(e-52) with M the integer nearest to
\* t * 2^(52-e) / 1000.  Residue is (t * 2^(52-e)) mod 1000: 0 when t/1000 is
\* a double, below 500 when the nearest double lies below t/1000, above 500
\* when it lies above (500 itself cannot occur, 2^(52-e) being a multiple
\* of 8); the distance from t/1000 is Residue / 1000 (or (1000 - Residue) /
\* 1000) units of 2^(e-52).
Residue(t) == ((t % 1000) * Pow2Mod(52 - Exponent(t), 1000)) % 1000

\* line 132 (142): millis = int((seconds - int(seconds)) * 1000).
\* seconds - int(seconds) is exact; its product with 1000 is f - d with f =
\* t mod 1000 and d = 1000 times the error of `seconds`, rounded to the
\* nearest double.  When `seconds` lies above t/1000 (or on it) the product
\* rounds to no less than f and int gives f.  When it lies below, the
\* product rounds up to f only if d is no more than half the distance from
\* f to the double before it, 2^(k-53) for 2^k < f < 2^(k+1) and 2^(k-54)
\* for f = 2^k; otherwise it stays below f and int gives f - 1.
millis(t) ==
    LET f == t % 1000
        e == Exponent(t)
        r == Residue(t)
        k == Log2(f)
        x == IF f = Pow2(k) THEN k - 2 - e ELSE k - 1 - e
    IN  IF f = 0 \/ r = 0 \/ r > 500 THEN f
        ELSE IF x >= 0 /\ r <= Pow2(x) THEN f
        ELSE f - 1

\* lines 127-128 (137-138): int(timedelta(seconds=seconds).total_seconds()).
\* timedelta rounds `seconds` to whole microseconds, which undoes the float
\* error of a whole number of milliseconds.
total_seconds(t) == t \div 1000

Digit == << "0", "1", "2", "3", "4", "5", "6", "7", "8", "9" >>

RECURSIVE Decimal(_)
Decimal(n) == IF n < 10 THEN << Digit[n + 1] >>
              ELSE Decimal(n \div 10) \o << Digit[(n % 10) + 1] >>

RECURSIVE ZeroPad(_, _)
ZeroPad(s, width) == IF Len(s) >= width THEN s ELSE ZeroPad(<< "0" >> \o s, width)

\* f"{n:02d}", f"{n:03d}": at least `width` digits, never fewer than n has
FormatD(n, width) == ZeroPad(Decimal(n), width)

\* lines 129-133 (139-143)
format_timestamp(t, sep) ==
    LET hours == total_seconds(t) \div 3600
        minutes == (total_seconds(t) % 3600) \div 60
        secs == total_seconds(t) % 60
    IN  FormatD(hours, 2) \o << ":" >> \o FormatD(minutes, 2) \o << ":" >>
        \o FormatD(secs, 2) \o << sep >> \o FormatD(millis(t), 3)

format_timestamp_srt(t) == format_timestamp(t, ",")

format_timestamp_vtt(t) == format_timestamp(t, ".")

NoTimestamp == [ srt |-> <<>>, vtt |-> <<>> ]

\* no timestamp has been asked for
FmtIdle ==
    /\ offset = 0
    /\ timestamp = NoTimestamp

(***************************************************************************)
(* The request handlers transcribe_upload and transcribe_from_url (app.py) *)
(*                                                                         *)
(* One request is in flight at each entry point and the two are handled    *)
(* concurrently.  One request creates one job: its ids come from uuid4, so *)
(* the job of request r is keyed by r.  A file is "absent", "partial" (a   *)
(* fragment left by a write that failed) or "full".  The collaborators     *)
(* (werkzeug's file.save, requests, the database, ffmpeg, the recogniser,  *)
(* the file system) answer nondeterministically with every outcome the     *)
(* handler provides for.                                                   *)
(***************************************************************************)
Requests == { "transcribe_upload", "transcribe_from_url" }

\* config.py, times in tenths of a second
WORDS_PER_LINE == 8
MIN_LINE_DURATION == 15
MAX_LINE_DURATION == 70
PAUSE_THRESHOLD == 7

\* app.py:80-85
subtitle_generator ==
    [ words_per_line |-> WORDS_PER_LINE,
      min_line_duration |-> MIN_LINE_DURATION,
      max_line_duration |-> MAX_LINE_DURATION,
      pause_threshold |-> PAUSE_THRESHOLD ]

\* generate_id(): str(uuid.uuid4()), a fresh id for every request.  The ids
\* of a request (file_id, subtitle_id) name its rows and its files; the
\* request's own name stands for them.
generate_idRepeated(r) == "transcribe_upload"
generate_id(r) == r

\* What a request may carry.
UploadInputs == { "no_file", "empty_filename", "disallowed_extension", "ok" }
UrlInputs == { "no_file_url", "disallowed_extension", "ok" }
Inputs(r) == IF r = "transcribe_upload" THEN UploadInputs ELSE UrlInputs

\* What the recogniser may return on success: nothing, only a blank word,
\* or see(0.0,0.5) you(0.6,0.9) soon(2.0,2.4).
RecognisedWords ==
    { <<>>,
      << [word |-> <<" ">>, start |-> 0, end |-> 3] >>,
      << [word |-> <<"s", "e", "e">>, start |-> 0, end |-> 5],
         [word |-> <<"y", "o", "u">>, start |-> 6, end |-> 9],
         [word |-> <<"s", "o", "o", "n">>, start |-> 20, end |-> 24] >> }

FileNames == { "upload", "wav", "srt", "vtt", "json" }
NoFiles == [ f \in FileNames |-> "absent" ]

\* a write that fails leaves nothing or a fragment
FailedWrite == { "absent", "partial" }
WriteOutcomes == { "full" } \cup FailedWrite

\* models/database.py: the columns of a subtitles row the handlers set;
\* text_json is <<>> while NULL and << document >> once set
NoRow ==
    [ status |-> "none", error_message |-> "None", subtitle_path |-> "None",
      vtt_path |-> "None", text_json |-> <<>>, processing_time |-> "None" ]

\* Subtitle(id=subtitle_id, ..., status='processing')
NewSubtitle == [ NoRow EXCEPT !.status = "processing" ]

Response(status, error, message) ==
    [ status |-> status, error |-> error, message |-> message ]

\* nothing received yet, nothing returned yet
NoRequest == "none"
NoResponse == Response(0, "None", "None")

\* the validation at the head of each handler: the 400 response, if any
Rejection(r, req) ==
    IF r = "transcribe_upload"
    THEN CASE req = "no_file" ->
                Response(400, "No file provided", "Please upload an audio or video file")
           [] req = "empty_filename" -> Response(400, "No file selected", "None")
           [] req = "disallowed_extension" ->
                Response(400, "Invalid file type", "Allowed types")
           [] OTHER -> NoResponse
    ELSE IF req = "no_file_url"
         THEN Response(400, "Missing file_url", "None")
         ELSE NoResponse

\* AudioProcessor.cleanup(*paths) on the files fs of one job: every path
\* that exists is removed, unless os.remove raises (logged, file stays)
cleanup(fs, paths) ==
    { g \in [FileNames -> {"absent", "partial", "full"}] :
        \A f \in FileNames :
            IF f \in paths THEN g[f] \in {"absent", fs[f]} ELSE g[f] = fs[f] }

\* the paths each handler cleans up when a stage has failed
FailureCleanup(r, stage) ==
    IF r = "transcribe_upload" THEN {}
    ELSE IF stage = "convert_to_wav" THEN {"upload"} ELSE {"upload", "wav"}

\* str(e) of an exception raised without a message (MemoryError(), ...)
NoMessage == ""

\* result['error'] of a stage that returns failure: the stage's own texts
\* (ffmpeg's stderr, "Audio must be mono", an OSError's text) or str(e) of
\* whatever exception its `except Exception as e` caught
Errors(stage) ==
    CASE stage = "convert_to_wav" -> { "ffmpeg stderr", NoMessage }
      [] stage = "transcribe" -> { "Audio must be mono", NoMessage }
      [] OTHER -> { "No space left on device", NoMessage }

\* where a handler goes after the failure branch of a stage: it returns
AfterFailedStageRetry(stage) == stage
AfterFailedStageFallThrough(stage) ==
    CASE stage = "convert_to_wav" -> "transcribe"
      [] stage = "transcribe" -> "generate_all"
      [] OTHER -> "commit"
AfterFailedStage(stage) == "returned"

\* except Exception as e: session.rollback(); return 500 with str(e)
Except(r, e) ==
    /\ session' = [session EXCEPT ![r] = db[generate_id(r)]]
    /\ response' = [response EXCEPT ![r] = Response(500, "Internal Server Error", e)]
    /\ pc' = [pc EXCEPT ![r] = "returned"]

\* except requests.RequestException as e: session.rollback(); return 500
DownloadFailed(r, e) ==
    /\ session' = [session EXCEPT ![r] = db[generate_id(r)]]
    /\ response' = [response EXCEPT ![r] = Response(500, "Download failed", e)]
    /\ pc' = [pc EXCEPT ![r] = "returned"]

\* `if not result['success']:` -- status 'failed', error_message, commit,
\* (transcribe_from_url: cleanup,) return 500.  fs: the job's files now.
FailedStage(r, stage, fs, error, message) ==
    \/ /\ session' = [session EXCEPT ![r] =
                        [@ EXCEPT !.status = "failed", !.error_message = message]]
       /\ db' = [db EXCEPT ![generate_id(r)] = session'[r]]
       /\ \E g \in cleanup(fs, FailureCleanup(r, stage)) :
              files' = [files EXCEPT ![generate_id(r)] = g]
       /\ response' = [response EXCEPT ![r] = Response(500, error, message)]
       /\ pc' = [pc EXCEPT ![r] = AfterFailedStage(stage)]
    \/ \* session.commit() raises
       /\ files' = [files EXCEPT ![generate_id(r)] = fs]
       /\ Except(r, "commit failed")
       /\ UNCHANGED db

Called(r, stage, ok) ==
    calls' = [calls EXCEPT ![r] = Append(@, [stage |-> stage, success |-> ok])]

\* request intake and validation (app.py:194-215, 375-381)
Validate(r) ==
    /\ pc[r] = "start"
    /\ \E req \in Inputs(r) :
          /\ request' = [request EXCEPT ![r] = req]
          /\ IF Rejection(r, req) # NoResponse
             THEN /\ response' = [response EXCEPT ![r] = Rejection(r, req)]
                  /\ pc' = [pc EXCEPT ![r] = "returned"]
             ELSE /\ pc' = [pc EXCEPT ![r] = "save"]
                  /\ UNCHANGED response
    /\ UNCHANGED <<db, session, files, transcribe_result, calls>>

\* file.save(upload_path) (app.py:232-235); requests.get and the chunked
\* write of the download (app.py:391-410)
SaveInput(r) ==
    /\ pc[r] = "save"
    /\ \/ /\ files' = [files EXCEPT ![generate_id(r)]["upload"] = "full"]
          /\ pc' = [pc EXCEPT ![r] = "create"]
          /\ UNCHANGED <<session, response>>
       \/ \* writing the file raises an OSError
          /\ \E left \in FailedWrite :
                files' = [files EXCEPT ![generate_id(r)]["upload"] = left]
          /\ Except(r, "write failed")
       \/ \* requests.get or raise_for_status raises
          /\ r = "transcribe_from_url"
          /\ DownloadFailed(r, "request failed")
          /\ UNCHANGED files
       \/ \* iter_content raises after open(upload_path, 'wb')
          /\ r = "transcribe_from_url"
          /\ files' = [files EXCEPT ![generate_id(r)]["upload"] = "partial"]
          /\ DownloadFailed(r, "connection broken")
    /\ UNCHANGED <<request, db, transcribe_result, calls>>

\* session.add(media_file); session.add(subtitle); session.commit()
\* (app.py:237-257, 415-434)
CreateRecords(r) ==
    /\ pc[r] = "create"
    /\ \/ /\ session' = [session EXCEPT ![r] = NewSubtitle]
          /\ db' = [db EXCEPT ![generate_id(r)] = NewSubtitle]
          /\ pc' = [pc EXCEPT ![r] = "convert_to_wav"]
          /\ UNCHANGED response
       \/ /\ Except(r, "commit failed")
          /\ UNCHANGED db
    /\ UNCHANGED <<request, files, transcribe_result, calls>>

\* audio_processor.convert_to_wav and its failure branch
\* (app.py:259-275, 436-452; audio_processor.py:62-143)
ConvertToWav(r) ==
    /\ pc[r] = "convert_to_wav"
    /\ \/ /\ Called(r, "convert_to_wav", TRUE)
          /\ files' = [files EXCEPT ![generate_id(r)]["wav"] = "full"]
          /\ pc' = [pc EXCEPT ![r] = "transcribe"]
          /\ UNCHANGED <<db, session, response>>
       \/ /\ Called(r, "convert_to_wav", FALSE)
          /\ \E left \in FailedWrite, error \in Errors("convert_to_wav") :
                FailedStage(r, "convert_to_wav", [files[generate_id(r)] EXCEPT !["wav"] = left],
                            "Conversion failed", error)
    /\ UNCHANGED <<request, transcribe_result>>

\* get_transcriber().transcribe(wav_path) and its failure branch
\* (app.py:277-289, 454-467; vosk_transcriber.py:52-137)
Transcribe(r) ==
    /\ pc[r] = "transcribe"
    /\ \/ /\ Called(r, "transcribe", TRUE)
          /\ \E ws \in RecognisedWords :
                transcribe_result' = [transcribe_result EXCEPT ![r] = ws]
          /\ pc' = [pc EXCEPT ![r] = "generate_all"]
          /\ UNCHANGED <<db, session, files, response>>
       \/ /\ Called(r, "transcribe", FALSE)
          /\ \E error \in Errors("transcribe") :
                FailedStage(r, "transcribe", files[generate_id(r)], "Transcription failed", error)
          /\ UNCHANGED transcribe_result
    /\ UNCHANGED request

\* `if not lines:` in generate_all (subtitle_generator.py:258)
NoLinesIgnored(ls) == FALSE
NoLines(ls) == Len(ls) = 0

\* subtitle_generator.generate_all and its failure branch
\* (app.py:291-312, 469-492; subtitle_generator.py:241-295)
GenerateAll(r) ==
    /\ pc[r] = "generate_all"
    /\ LET ls == segment_into_lines(generator, transcribe_result[r])
       IN  IF NoLines(ls)
           THEN /\ Called(r, "generate_all", FALSE)
                /\ FailedStage(r, "generate_all", files[generate_id(r)],
                               "Subtitle generation failed",
                               "No lines generated from transcription")
           ELSE \E srt \in WriteOutcomes, vtt \in WriteOutcomes, json \in WriteOutcomes :
                  LET fs == [files[generate_id(r)] EXCEPT !["srt"] = srt, !["vtt"] = vtt,
                                             !["json"] = json]
                  IN  IF json = "full"
                      THEN /\ Called(r, "generate_all", TRUE)
                           /\ files' = [files EXCEPT ![generate_id(r)] = fs]
                           /\ pc' = [pc EXCEPT ![r] = "commit"]
                           /\ UNCHANGED <<db, session, response>>
                      ELSE /\ Called(r, "generate_all", FALSE)
                           /\ \E error \in Errors("generate_all") :
                                 FailedStage(r, "generate_all", fs,
                                             "Subtitle generation failed", error)
    /\ UNCHANGED <<request, transcribe_result>>

\* the metadata the handlers pass to generate_all (app.py:296-301, 475-480)
HandlerMetadata(r) ==
    [ language |-> "en", model |-> "vosk-model", file_id |-> generate_id(r),
      media_id |-> "media" ]

\* subtitle_result['text_json'] of a successful generate_all on the words the
\* recogniser returned to request r (subtitle_generator.py:256-288)
text_json(r) ==
    generate_json(segment_into_lines(generator, transcribe_result[r]),
                  transcribe_result[r], HandlerMetadata(r))

\* the Subtitle object after the assignments at app.py:316-321
CompletedWithoutJson(subtitle, r) ==
    [ subtitle EXCEPT !.status = "completed", !.subtitle_path = "srt",
                      !.vtt_path = "vtt", !.processing_time = "time" ]
Completed(subtitle, r) ==
    [ subtitle EXCEPT !.status = "completed", !.subtitle_path = "srt",
                      !.vtt_path = "vtt", !.text_json = << text_json(r) >>,
                      !.processing_time = "time" ]

\* subtitle.status = 'completed' ...; session.commit() (app.py:314-322, 494-502)
CommitCompleted(r) ==
    /\ pc[r] = "commit"
    /\ \/ /\ Called(r, "commit", TRUE)
          /\ session' = [session EXCEPT ![r] = Completed(@, r)]
          /\ db' = [db EXCEPT ![generate_id(r)] = session'[r]]
          /\ pc' = [pc EXCEPT ![r] = "cleanup"]
          /\ UNCHANGED response
       \/ /\ Called(r, "commit", FALSE)
          /\ Except(r, "commit failed")
          /\ UNCHANGED db
    /\ UNCHANGED <<request, files, transcribe_result>>

\* audio_processor.cleanup(upload_path, wav_path); return 200
\* (app.py:324-344, 504-524)
CleanupAndReturnRaising(r) ==
    /\ pc[r] = "cleanup"
    /\ \E g \in cleanup(files[generate_id(r)], {"upload", "wav"}) :
          /\ files' = [files EXCEPT ![generate_id(r)] = g]
          /\ IF g["upload"] = "absent" /\ g["wav"] = "absent"
             THEN /\ response' = [response EXCEPT ![r] =
                                    Response(200, "None", "Transcription completed")]
                  /\ pc' = [pc EXCEPT ![r] = "returned"]
                  /\ UNCHANGED session
             ELSE Except(r, "remove failed")
    /\ UNCHANGED <<request, db, transcribe_result, calls>>
CleanupAndReturn(r) ==
    /\ pc[r] = "cleanup"
    /\ \E g \in cleanup(files[generate_id(r)], {"upload", "wav"}) :
          files' = [files EXCEPT ![generate_id(r)] = g]
    /\ response' = [response EXCEPT ![r] =
                      Response(200, "None", "Transcription completed")]
    /\ pc' = [pc EXCEPT ![r] = "returned"]
    /\ UNCHANGED <<request, db, session, transcribe_result, calls>>

(***************************************************************************)
(* get_transcriber (app.py) and VoskTranscriber.load_model: lazy            *)
(* construction of the transcriber and lazy loading of its model, called    *)
(* from each request's thread.  A thread can be preempted between any two   *)
(* statements, so the test `is None` and the assignment that follows it are *)
(* separate steps.  A VoskTranscriber is named by its position in           *)
(* `instances`; instances[i] is its .model (None, or the number of the load *)
(* that produced it).                                                       *)
(***************************************************************************)
Threads == 1..NumThreads

\* `if _transcriber is None:` (app.py:93)
GetTranscriber(t) ==
    /\ t_pc[t] = "get_transcriber"
    /\ t_pc' = [t_pc EXCEPT ![t] = IF transcriber = None THEN "construct" ELSE "return"]
    /\ UNCHANGED <<transcriber, instances, models, t_self>>

\* `_transcriber = VoskTranscriber(...)` (app.py:94-97; __init__: model = None)
Construct(t) ==
    /\ t_pc[t] = "construct"
    /\ instances' = Append(instances, None)
    /\ transcriber' = Len(instances) + 1
    /\ t_pc' = [t_pc EXCEPT ![t] = "return"]
    /\ UNCHANGED <<models, t_self>>

\* `return _transcriber` (app.py:98)
ReturnTranscriber(t) ==
    /\ t_pc[t] = "return"
    /\ t_self' = [t_self EXCEPT ![t] = transcriber]
    /\ t_pc' = [t_pc EXCEPT ![t] = "load_model"]
    /\ UNCHANGED <<transcriber, instances, models>>

\* `if self.model is None:` (vosk_transcriber.py:42)
LoadModel(t) ==
    /\ t_pc[t] = "load_model"
    /\ t_pc' = [t_pc EXCEPT ![t] =
                  IF instances[t_self[t]] = None THEN "Model" ELSE "transcribing"]
    /\ UNCHANGED <<transcriber, instances, models, t_self>>

\* `self.model = Model(self.model_path)` (vosk_transcriber.py:46-48)
Model(t) ==
    /\ t_pc[t] = "Model"
    /\ models' = models + 1
    /\ instances' = [instances EXCEPT ![t_self[t]] = models + 1]
    /\ t_pc' = [t_pc EXCEPT ![t] = "transcribing"]
    /\ UNCHANGED <<transcriber, t_self>>

\* no thread has asked for the transcriber yet
LazyIdle ==
    /\ transcriber = None
    /\ instances = <<>>
    /\ models = 0
    /\ t_pc = [t \in Threads |-> "idle"]
    /\ t_self = [t \in Threads |-> None]

JobsIdle ==
    /\ pc = [r \in Requests |-> "start"]
    /\ request = [r \in Requests |-> NoRequest]
    /\ db = [r \in Requests |-> NoRow]
    /\ session = [r \in Requests |-> NoRow]
    /\ files = [r \in Requests |-> NoFiles]
    /\ transcribe_result = [r \in Requests |-> <<>>]
    /\ calls = [r \in Requests |-> <<>>]
    /\ response = [r \in Requests |-> NoResponse]

(***************************************************************************)
(* Specification Spec: one request at each entry point, the two handled    *)
(* concurrently.                                                           *)
(***************************************************************************)
Init ==
    /\ JobsIdle
    /\ LazyIdle
    /\ FmtIdle
    /\ JsonIdle
    /\ generator = subtitle_generator
    /\ words = <<>>
    /\ lines = <<>>
    /\ seg_pc = "idle"

Next ==
    \E r \in Requests :
        \/ Validate(r) /\ UNCHANGED <<segVars, lazyVars, fmtVars, jsonVars>>
        \/ SaveInput(r) /\ UNCHANGED <<segVars, lazyVars, fmtVars, jsonVars>>
        \/ CreateRecords(r) /\ UNCHANGED <<segVars, lazyVars, fmtVars, jsonVars>>
        \/ ConvertToWav(r) /\ UNCHANGED <<segVars, lazyVars, fmtVars, jsonVars>>
        \/ Transcribe(r) /\ UNCHANGED <<segVars, lazyVars, fmtVars, jsonVars>>
        \/ GenerateAll(r) /\ UNCHANGED <<segVars, lazyVars, fmtVars, jsonVars>>
        \/ CommitCompleted(r) /\ UNCHANGED <<segVars, lazyVars, fmtVars, jsonVars>>
        \/ CleanupAndReturn(r) /\ UNCHANGED <<segVars, lazyVars, fmtVars, jsonVars>>

Spec == Init /\ [][Next]_vars

(***************************************************************************)
(* Specification SegSpec: one call of segment_into_lines on any bounded    *)
(* word list, by any bounded generator.                                    *)
(***************************************************************************)
SegInit ==
    /\ IsWordList(words)
    /\ generator \in Generators
    /\ lines = <<>>
    /\ seg_pc = "call"
    /\ JobsIdle
    /\ LazyIdle
    /\ FmtIdle
    /\ JsonIdle

Segment ==
    /\ seg_pc = "call"
    /\ lines' = segment_into_lines(generator, words)
    /\ seg_pc' = "done"
    /\ UNCHANGED <<words, generator, jobVars, lazyVars, fmtVars, jsonVars>>

SegNext == Segment

SegSpec == SegInit /\ [][SegNext]_vars

(***************************************************************************)
(* Vocabulary of the segmentation claims                                   *)
(***************************************************************************)
Done == seg_pc = "done"

Last(s) == s[Len(s)]

\* the texts of the non-blank input words, in input order
RECURSIVE NonBlankTexts(_)
NonBlankTexts(ws) ==
    IF Len(ws) = 0 THEN <<>>
    ELSE IF IsBlank(ws[1].word) THEN NonBlankTexts(Tail(ws))
    ELSE << ws[1].word >> \o NonBlankTexts(Tail(ws))

\* text.split(' '): the pieces between single spaces, empty pieces kept
RECURSIVE SplitFrom(_, _, _)
SplitFrom(text, k, piece) ==
    IF k > Len(text) THEN << piece >>
    ELSE IF text[k] = " " THEN << piece >> \o SplitFrom(text, k + 1, <<>>)
    ELSE SplitFrom(text, k + 1, Append(piece, text[k]))

Split(text) == SplitFrom(text, 1, <<>>)

\* the lines' texts split on spaces, concatenated in line order
RECURSIVE SplitLines(_)
SplitLines(ls) ==
    IF Len(ls) = 0 THEN <<>> ELSE Split(ls[1].text) \o SplitLines(Tail(ls))

\* no non-blank word carries a space character of its own
NoSpaceInWords(ws) ==
    \A i \in 1..Len(ws) :
        IsBlank(ws[i].word) \/ \A k \in 1..Len(ws[i].word) : ws[i].word[k] # " "

\* words p < q are non-blank with only blank words between them
ConsecutiveNonBlank(ws, p, q) ==
    /\ p < q
    /\ ~IsBlank(ws[p].word)
    /\ ~IsBlank(ws[q].word)
    /\ \A m \in (p + 1)..(q - 1) : IsBlank(ws[m].word)

\* each word ends no earlier than it starts, words in chronological order
Chronological(ws) ==
    /\ \A i \in 1..Len(ws) : ws[i].end >= ws[i].start
    /\ \A i \in 1..(Len(ws) - 1) : ws[i].start <= ws[i + 1].start

\* ... and no word starts before the word before it has ended
NonOverlapping(ws) ==
    \A i \in 1..(Len(ws) - 1) : ws[i].end <= ws[i + 1].start

SomeBlankBetween(ws) ==
    \E p, q \in 1..Len(ws) : q > p + 1 /\ ConsecutiveNonBlank(ws, p, q)

(***************************************************************************)
(* C1 (as stated): splitting the lines' texts on spaces and concatenating  *)
(* them in line order gives exactly the non-blank input words in their     *)
(* original order, for every input word list.                              *)
(***************************************************************************)
C1_SplitTextIsInput ==
    Done => SplitLines(lines) = NonBlankTexts(words)

(***************************************************************************)
(* C1 (amended): the same, for every input word list whose non-blank words *)
(* carry no space character of their own; blank words are dropped and no   *)
(* other word is lost, duplicated or reordered.                            *)
(***************************************************************************)
C1_SplitTextIsInputNoSpaces ==
    (Done /\ NoSpaceInWords(words)) => SplitLines(lines) = NonBlankTexts(words)

C1_Witness ==
    /\ Done
    /\ NoSpaceInWords(words)
    /\ SomeBlankBetween(words)
    /\ Len(lines) >= 2
    /\ Len(NonBlankTexts(words)) >= 2

(***************************************************************************)
(* C2 (as stated): whenever two consecutive non-blank words w1, w2 have    *)
(* w2.start - w1.end >= pause_threshold, w1 is the last word of one line   *)
(* and w2 the first word of the next.                                      *)
(***************************************************************************)
C2_PauseAlwaysBreaks ==
    Done =>
        \A p, q \in 1..Len(words) :
            ( /\ ConsecutiveNonBlank(words, p, q)
              /\ words[q].start - words[p].end >= generator.pause_threshold )
            => \E k \in 1..(Len(lines) - 1) :
                   /\ Last(lines[k].members) = p
                   /\ lines[k + 1].members[1] = q

(***************************************************************************)
(* C3: every returned line holds at least one and at most words_per_line   *)
(* words.                                                                  *)
(***************************************************************************)
C3_LineWordCount ==
    Done =>
        \A k \in 1..Len(lines) :
            /\ Len(lines[k].members) >= 1
            /\ Len(lines[k].members) <= generator.words_per_line

C3_Witness ==
    /\ Done
    /\ generator.words_per_line >= 2
    /\ Len(lines) >= 2
    /\ Len(lines[1].members) = generator.words_per_line
    \* the word count limit alone closed line 1
    /\ LET q == lines[2].members[1]
       IN  /\ q = Last(lines[1].members) + 1
           /\ words[q].start - words[q - 1].end < generator.pause_threshold
           /\ words[q].end - lines[1].start < generator.max_line_duration
           /\ Last(words[q - 1].word) \notin {".", "!", "?"}

C5_LineSpansItsWords ==
    Done =>
        \A k \in 1..Len(lines) :
            /\ lines[k].start = words[lines[k].members[1]].start
            /\ lines[k].end = words[Last(lines[k].members)].end

(***************************************************************************)
(* C6: the lines' index fields are exactly 1, 2, ..., N in list order.     *)
(***************************************************************************)
C6_IndexContiguous ==
    Done => \A k \in 1..Len(lines) : lines[k].index = k

C6_Witness == Done /\ Len(lines) >= 3

(***************************************************************************)
(* C7: when every word has end >= start and the words are in chronological *)
(* order, every returned line has end >= start.                            *)
(***************************************************************************)
C7_LineEndNotBeforeStart ==
    (Done /\ Chronological(words)) =>
        \A k \in 1..Len(lines) : lines[k].end >= lines[k].start

C7_Witness ==
    /\ Done
    /\ Chronological(words)
    /\ ~NonOverlapping(words)
    /\ Len(lines) >= 2
    /\ lines[1].end > lines[1].start

(***************************************************************************)
(* Claims about the request handlers (specification Spec)                  *)
(***************************************************************************)
\* the stages of one job, in the order the handlers call them
StageOrder == << "convert_to_wav", "transcribe", "generate_all", "commit" >>

Terminal == { "completed", "failed" }

Stages(r) == [ k \in 1..Len(calls[r]) |-> calls[r][k].stage ]

\* C8: in both entry points the stages of one job are invoked in the order
\* convert_to_wav, transcribe, generate_all, final commit; a stage is invoked
\* only after the one before it returned success, none is invoked twice, and
\* none is invoked after a stage has failed.
C8_StagesInOrder ==
    \A r \in Requests :
        /\ Len(calls[r]) <= Len(StageOrder)
        /\ \A k \in 1..Len(calls[r]) :
              /\ calls[r][k].stage = StageOrder[k]
              /\ k < Len(calls[r]) => calls[r][k].success

\* one job went through all four stages, the other stopped at a failed
\* recogniser and returned
C8_Witness ==
    /\ Stages("transcribe_upload") = StageOrder
    /\ \A k \in 1..4 : calls["transcribe_upload"][k].success
    /\ Stages("transcribe_from_url") = << "convert_to_wav", "transcribe" >>
    /\ ~calls["transcribe_from_url"][2].success
    /\ pc["transcribe_from_url"] = "returned"

\* C9: once the persisted record of a job has status 'completed' or
\* 'failed', no step of any request changes that status.
C9_TerminalStatusIsFinal ==
    [][ \A r \in Requests :
          db[r].status \in Terminal => db'[r].status = db[r].status ]_vars

\* both handlers ran on after a record had become terminal: one job is
\* recorded failed, the other completed, and both requests have returned
C9_Witness ==
    /\ db["transcribe_upload"].status = "failed"
    /\ db["transcribe_from_url"].status = "completed"
    /\ \A r \in Requests : pc[r] = "returned"

\* C10: a job whose record was committed has a persisted status of
\* 'completed' or 'failed' once its request handler has returned.
C10_ReturnedJobIsTerminal ==
    \A r \in Requests :
        pc[r] = "returned" /\ db[r].status # "none" => db[r].status \in Terminal

\* the job of request r has run the stage (the stage appears in its history)
Invoked(r, stage) == \E k \in 1..Len(calls[r]) : calls[r][k].stage = stage

\* the stage was invoked for the job of request r and returned failure
StageFailed(r, stage) ==
    \E k \in 1..Len(calls[r]) : calls[r][k].stage = stage /\ ~calls[r][k].success

Returned(r) == pc[r] = "returned"

\* C11: in both entry points, when convert_to_wav returns failure the job's
\* record ends 'failed', neither the recogniser nor the subtitle generator is
\* invoked, and the saved input file is gone when the request returns.
C11_ConvertFailureHandled ==
    \A r \in Requests :
        (Returned(r) /\ StageFailed(r, "convert_to_wav")) =>
            /\ db[r].status = "failed"
            /\ ~Invoked(r, "transcribe")
            /\ ~Invoked(r, "generate_all")
            /\ files[r]["upload"] = "absent"

\* C12: once a job's record has a terminal status and the request has
\* returned, neither the saved input file nor the normalised .wav exists.
C12_TerminalJobHasNoTemporaryFiles ==
    \A r \in Requests :
        (Returned(r) /\ db[r].status \in Terminal) =>
            /\ files[r]["upload"] = "absent"
            /\ files[r]["wav"] = "absent"

\* C13: the .srt, .vtt and .json files of a job exist after its request only
\* if the job's record has status 'completed'.
C13_ArtifactsOnlyWhenCompleted ==
    \A r \in Requests :
        (Returned(r) /\ db[r].status # "completed") =>
            \A f \in { "srt", "vtt", "json" } : files[r][f] = "absent"

\* get_job_status(job_id): what a lookup by job id returns (app.py:639-666);
\* the job of request r has id r
NotFound == [ success |-> FALSE, error |-> "Not Found" ]

get_job_status(r) ==
    IF db[r].status = "none" THEN NotFound
    ELSE [ success |-> TRUE, id |-> r, status |-> db[r].status,
           error_message |-> db[r].error_message,
           processing_time |-> db[r].processing_time ]

\* the failure detail of a looked-up job: everything but its id and status
FailureDetail(r) ==
    [ error_message |-> get_job_status(r).error_message,
      processing_time |-> get_job_status(r).processing_time ]

\* the stage whose failure result ended the job of request r, if any
FailedIn(r) ==
    IF \E stage \in { "convert_to_wav", "transcribe", "generate_all" } : StageFailed(r, stage)
    THEN calls[r][Len(calls[r])].stage
    ELSE "None"

\* C14: whenever a stage returns failure and the job's record is updated to
\* 'failed', the failure detail that a lookup by job id (get_job_status)
\* returns identifies the failing stage as well as the reason: the stage can
\* be told from the detail, so two jobs that failed in different stages never
\* show the same detail.
C14_RecordedFailureDetailNamesStage ==
    \A r, q \in Requests :
        (/\ Returned(r) /\ FailedIn(r) # "None" /\ get_job_status(r).status = "failed"
         /\ Returned(q) /\ FailedIn(q) # "None" /\ get_job_status(q).status = "failed"
         /\ FailureDetail(q) = FailureDetail(r)) => FailedIn(q) = FailedIn(r)

\* `words` is empty or holds only blank (whitespace-only) words
AllBlank(ws) == \A i \in 1..Len(ws) : IsBlank(ws[i].word)

SubtitleFiles == { "srt", "vtt", "json" }

\* C15: when the word list is empty or contains only blank words,
\* segment_into_lines returns the empty list and generate_all returns
\* success=false without creating any of the .srt, .vtt or .json files.
C15_BlankWordsEmitNothing ==
    \A r \in Requests :
        (Invoked(r, "generate_all") /\ AllBlank(transcribe_result[r])) =>
            /\ segment_into_lines(generator, transcribe_result[r]) = <<>>
            /\ StageFailed(r, "generate_all")
            /\ \A f \in SubtitleFiles : files[r][f] = "absent"

\* generate_all has run on an empty word list in one job and on a list of
\* one blank word in the other
C15_Witness ==
    /\ \A r \in Requests : Invoked(r, "generate_all") /\ Returned(r)
    /\ transcribe_result["transcribe_upload"] = <<>>
    /\ Len(transcribe_result["transcribe_from_url"]) = 1
    /\ AllBlank(transcribe_result["transcribe_from_url"])

(***************************************************************************)
(* Specification LazySpec: NumThreads request threads reach                *)
(* get_transcriber().transcribe(...) while no transcriber exists yet.      *)
(***************************************************************************)
LazyInit ==
    /\ transcriber = None
    /\ instances = <<>>
    /\ models = 0
    /\ t_pc = [t \in Threads |-> "get_transcriber"]
    /\ t_self = [t \in Threads |-> None]
    /\ JobsIdle
    /\ FmtIdle
    /\ JsonIdle
    /\ generator = subtitle_generator
    /\ words = <<>>
    /\ lines = <<>>
    /\ seg_pc = "idle"

LazyNext ==
    \E t \in Threads :
        \/ GetTranscriber(t) /\ UNCHANGED <<segVars, jobVars, fmtVars, jsonVars>>
        \/ Construct(t) /\ UNCHANGED <<segVars, jobVars, fmtVars, jsonVars>>
        \/ ReturnTranscriber(t) /\ UNCHANGED <<segVars, jobVars, fmtVars, jsonVars>>
        \/ LoadModel(t) /\ UNCHANGED <<segVars, jobVars, fmtVars, jsonVars>>
        \/ Model(t) /\ UNCHANGED <<segVars, jobVars, fmtVars, jsonVars>>

LazySpec == LazyInit /\ [][LazyNext]_vars

\* C16: under any interleaving of requests that use the recogniser for the
\* first time, the transcriber is constructed at most once, the model is
\* loaded at most once, and all requests use the same instance.
C16_InitialisedAtMostOnce ==
    /\ Len(instances) <= 1
    /\ models <= 1
    /\ \A t, u \in Threads :
          (t_pc[t] = "transcribing" /\ t_pc[u] = "transcribing") => t_self[t] = t_self[u]

(***************************************************************************)
(* Specification LiveSpec: Spec with collaborators that may never return   *)
(* on their own.  ffmpeg runs under subprocess.run(..., timeout=600), which *)
(* kills it and raises TimeoutExpired; the recogniser is called in-process  *)
(* with nothing that bounds it.  Every handler step that is enabled is      *)
(* eventually taken (each request has its own thread).                      *)
(***************************************************************************)
\* ffmpeg does not exit: subprocess.run waits (audio_processor.py:98-103)
FfmpegHangs(r) ==
    /\ pc[r] = "convert_to_wav"
    /\ pc' = [pc EXCEPT ![r] = "ffmpeg_running"]
    /\ UNCHANGED <<request, db, session, files, transcribe_result, calls, response>>

\* `except subprocess.TimeoutExpired:` (audio_processor.py:132-137), then the
\* handler's failure branch
TimeoutExpired(r) ==
    /\ pc[r] = "ffmpeg_running"
    /\ Called(r, "convert_to_wav", FALSE)
    /\ \E left \in FailedWrite :
          FailedStage(r, "convert_to_wav", [files[generate_id(r)] EXCEPT !["wav"] = left],
                      "Conversion failed", "Conversion timed out")
    /\ UNCHANGED <<request, transcribe_result>>

\* the recogniser does not return: rec.AcceptWaveform / rec.FinalResult
\* (vosk_transcriber.py:92-113) are plain calls, nothing interrupts them
RecogniserHangs(r) ==
    /\ pc[r] = "transcribe"
    /\ pc' = [pc EXCEPT ![r] = "recogniser_running"]
    /\ UNCHANGED <<request, db, session, files, transcribe_result, calls, response>>

\* the steps of the handler of request r
Step(r) ==
    /\ \/ Validate(r) \/ SaveInput(r) \/ CreateRecords(r) \/ ConvertToWav(r)
       \/ Transcribe(r) \/ GenerateAll(r) \/ CommitCompleted(r) \/ CleanupAndReturn(r)
       \/ FfmpegHangs(r) \/ TimeoutExpired(r) \/ RecogniserHangs(r)
    /\ UNCHANGED <<segVars, lazyVars, fmtVars, jsonVars>>

LiveNext ==
    \/ Next
    \/ \E r \in Requests :
          \/ FfmpegHangs(r) /\ UNCHANGED <<segVars, lazyVars, fmtVars, jsonVars>>
          \/ TimeoutExpired(r) /\ UNCHANGED <<segVars, lazyVars, fmtVars, jsonVars>>
          \/ RecogniserHangs(r) /\ UNCHANGED <<segVars, lazyVars, fmtVars, jsonVars>>

LiveSpec == Init /\ [][LiveNext]_vars /\ \A r \in Requests : WF_vars(Step(r))

\* C17: if the transcoder or the recogniser never returns on its own, the
\* stage that called it still ends with a failure result: whenever a
\* collaborator is running without returning, a step of the handler that
\* ends the stage is enabled (and is then taken, the handler's thread being
\* scheduled fairly).  A state where none is enabled is a job that stays
\* inside the stage forever.
C17_NoStageRunsForever ==
    \A r \in Requests :
        pc[r] \in { "ffmpeg_running", "recogniser_running" } => ENABLED Step(r)

\* C18: for two jobs A and B running concurrently, no step of A -- a stage
\* failing, its failure branch, its cleanup -- changes B's persisted record,
\* B's temporary files, B's subtitle files or B's response: each job's rows
\* and paths are named by its own generated id.  Every step of B's handler
\* moves B's pc, so a step that leaves pc[b] alone is a step of another job.
C18_JobsAreIsolated ==
    [][ \A b \in Requests :
          pc'[b] = pc[b] =>
              /\ db'[generate_id(b)] = db[generate_id(b)]
              /\ files'[generate_id(b)] = files[generate_id(b)]
              /\ session'[b] = session[b]
              /\ response'[b] = response[b] ]_vars

\* job A (the URL request) has failed in the recogniser, was cleaned up and
\* has returned while job B (the upload) is still on its way with its files
\* on disk and its record 'processing'
C18_Witness ==
    /\ Returned("transcribe_from_url")
    /\ StageFailed("transcribe_from_url", "transcribe")
    /\ files["transcribe_from_url"]["wav"] = "absent"
    /\ pc["transcribe_upload"] = "commit"
    /\ files["transcribe_upload"]["wav"] = "full"
    /\ files["transcribe_upload"]["srt"] = "full"
    /\ db["transcribe_upload"].status = "processing"

\* inputs that are malformed, missing or disallowed
Malformed == { "no_file", "empty_filename", "disallowed_extension", "no_file_url" }

\* C19: in both entry points a request with malformed, missing or disallowed
\* input (no file part, empty filename, extension outside ALLOWED_EXTENSIONS,
\* missing file_url, URL with an extension outside ALLOWED_EXTENSIONS) is
\* rejected with an error response and no record is created for it.
C19_MalformedInputRejected ==
    \A r \in Requests :
        request[r] \in Malformed =>
            /\ db[r].status = "none"
            /\ Returned(r) => response[r].status >= 400

\* C20: in transcribe_from_url, when fetching the input fails or times out
\* (requests.RequestException), a job record with status 'failed' and the
\* failure message is persisted and can be retrieved by job id.
C20_DownloadFailureIsRecorded ==
    \A r \in Requests :
        (Returned(r) /\ response[r].error = "Download failed") =>
            /\ get_job_status(r).success
            /\ get_job_status(r).status = "failed"
            /\ get_job_status(r).error_message = response[r].message

\* the request ended in the handler's generic `except Exception` block
InternalError(r) == Returned(r) /\ response[r].error = "Internal Server Error"

\* C21: when an unexpected exception is caught by the generic except block
\* of either entry point, the response is the same generic failure for every
\* exception: two requests that ended there got the same response.
C21_GenericFailureResponse ==
    \A r, q \in Requests :
        (InternalError(r) /\ InternalError(q)) => response[r] = response[q]

(***************************************************************************)
(* Further claims about segment_into_lines (specification SegSpec)         *)
(***************************************************************************)
\* every inter-word gap is below pause_threshold: between neighbouring
\* entries of the input and between consecutive non-blank words
NoPause(self, ws) ==
    /\ \A i \in 2..Len(ws) : ws[i].start - ws[i - 1].end < self.pause_threshold
    /\ \A p, q \in 1..Len(ws) :
          ConsecutiveNonBlank(ws, p, q) => ws[q].start - ws[p].end < self.pause_threshold

\* lines 1..N-1 hold exactly two words each, the last line one or two
BreaksEveryTwoWords(ls) ==
    /\ \A k \in 1..(Len(ls) - 1) : Len(ls[k].members) = 2
    /\ Len(ls) > 0 => Len(Last(ls).members) \in {1, 2}

\* no non-blank word ends in sentence-ending punctuation
NoPunctuation(ws) ==
    \A i \in 1..Len(ws) :
        IsBlank(ws[i].word) \/ Last(ws[i].word) \notin { ".", "!", "?" }

\* a non-blank word ends less than max_line_duration after the start of the
\* non-blank word before it
ShortPairs(self, ws) ==
    \A p, q \in 1..Len(ws) :
        ConsecutiveNonBlank(ws, p, q) => ws[q].end - ws[p].start < self.max_line_duration

C23_CompletedRecordIsWhole ==
    \A r \in Requests :
        db[r].status = "completed" =>
            /\ db[r].subtitle_path # "None"
            /\ db[r].vtt_path # "None"
            /\ db[r].processing_time # "None"
            /\ Len(db[r].text_json) = 1
            /\ db[r].text_json[1].metadata.total_lines
                 = Len(segment_into_lines(generator, transcribe_result[r]))
            /\ db[r].text_json[1].metadata.total_lines > 0

\* both jobs are recorded completed, with two lines each
C23_Witness ==
    \A r \in Requests :
        /\ db[r].status = "completed"
        /\ db[r].text_json[1].metadata.total_lines = 2

(***************************************************************************)
(* Specification FmtSpec: one call of format_timestamp_srt and of          *)
(* format_timestamp_vtt on the same offset.                                *)
(***************************************************************************)
\* Every whole millisecond up to MaxOffset, 3725.4 s, and 100 hours.
Offsets == (0..MaxOffset) \cup { 3725400, 360000000 }

SegIdle ==
    /\ generator = subtitle_generator
    /\ words = <<>>
    /\ lines = <<>>
    /\ seg_pc = "idle"

FmtInit ==
    /\ offset \in Offsets
    /\ timestamp = NoTimestamp
    /\ SegIdle
    /\ JobsIdle
    /\ LazyIdle
    /\ JsonIdle

Format ==
    /\ timestamp = NoTimestamp
    /\ timestamp' = [ srt |-> format_timestamp_srt(offset),
                      vtt |-> format_timestamp_vtt(offset) ]
    /\ UNCHANGED <<offset, segVars, jobVars, lazyVars, jsonVars>>

FmtNext == Format

FmtSpec == FmtInit /\ [][FmtNext]_vars

Formatted == timestamp # NoTimestamp

\* HH:MM:SS<sep>mmm of the offset t, computed on whole milliseconds
Expected(t, sep) ==
    FormatD(t \div 3600000, 2) \o << ":" >> \o FormatD((t \div 60000) % 60, 2)
    \o << ":" >> \o FormatD((t \div 1000) % 60, 2) \o << sep >>
    \o FormatD(t % 1000, 3)

\* C24: for every offset of whole milliseconds both formatters return the
\* 12-character string HH:MM:SS<sep>mmm with HH = t div 3600000, MM = (t div
\* 60000) mod 60, SS = (t div 1000) mod 60 and mmm = t mod 1000, the
\* separator being ',' for SRT and '.' for VTT.
C24_TimestampIsExact ==
    Formatted =>
        /\ timestamp.srt = Expected(offset, ",")
        /\ timestamp.vtt = Expected(offset, ".")
        /\ Len(timestamp.srt) = 12
        /\ Len(timestamp.vtt) = 12

(***************************************************************************)
(* Specification JsonSpec: one call of generate_json on a word list, the   *)
(* lines the application's generator makes of it, and a caller's metadata. *)
(***************************************************************************)
\* metadata=None, the keys the handlers pass (app.py:296-301, 474-479), and
\* mappings that carry a key generate_json computes itself.
Metadatas ==
    { <<>>,
      [ language |-> "en", model |-> "model", file_id |-> "id", media_id |-> "id" ],
      [ total_lines |-> 7 ],
      [ language |-> "en", duration |-> 99 ] }

JsonInit ==
    /\ generator = subtitle_generator
    /\ IsWordList(words)
    /\ lines = segment_into_lines(generator, words)
    /\ seg_pc = "done"
    /\ json_metadata \in Metadatas
    /\ json_data = <<>>
    /\ JobsIdle
    /\ LazyIdle
    /\ FmtIdle

GenerateJson ==
    /\ json_data = <<>>
    /\ json_data' = << generate_json(lines, words, json_metadata) >>
    /\ UNCHANGED <<json_metadata, segVars, jobVars, lazyVars, fmtVars>>

JsonNext == GenerateJson

JsonSpec == JsonInit /\ [][JsonNext]_vars

Generated == json_data # <<>>

\* the value generate_json computes for `duration`
ComputedDuration ==
    IF Len(lines) > 0 THEN lines[Len(lines)].end
    ELSE IF Len(words) > 0 THEN words[Len(words)].end
    ELSE 0

\* C25 as stated: whatever the caller's metadata, the document's
\* metadata.total_lines is the number of lines and metadata.duration is the
\* last line's end, or the last word's end when there is no line.
C25_CountAndDurationAreComputed ==
    Generated =>
        /\ json_data[1].metadata.total_lines = Len(lines)
        /\ json_data[1].metadata.duration = ComputedDuration

\* C25 amended: that holds for each of the two keys the caller's metadata
\* does not carry; a key the caller supplies replaces the computed value.
C25_CallerKeysReplaceComputedOnes ==
    Generated =>
        LET m == json_data[1].metadata
        IN  /\ m.total_lines = IF "total_lines" \in DOMAIN json_metadata
                               THEN json_metadata.total_lines ELSE Len(lines)
            /\ m.duration = IF "duration" \in DOMAIN json_metadata
                            THEN json_metadata.duration ELSE ComputedDuration
            /\ m.total_words = Len(words)
            /\ \A k \in DOMAIN json_metadata : m[k] = json_metadata[k]

C25_Witness ==
    /\ Generated
    /\ "model" \in DOMAIN json_metadata
    /\ Len(lines) = 2
    /\ json_data[1].metadata.total_lines = 2
    /\ json_data[1].metadata.duration = lines[2].end
    /\ json_data[1].metadata.model = "model"

(***************************************************************************)
(* Claims about the break triggers of segment_into_lines (SegSpec)         *)
(***************************************************************************)
EndsSentence(word) == Len(word) > 0 /\ Last(word) \in { ".", "!", "?" }

\* C26: a word that ends with '.', '!' or '?' is never followed by another
\* word in the same line: in every line only the last word may end a
\* sentence, whatever the gap, the word count and the duration.
C26_PunctuationClosesLine ==
    Done =>
        \A n \in 1..Len(lines) : \A k \in 1..(Len(lines[n].members) - 1) :
            ~EndsSentence(words[lines[n].members[k]].word)

\* a sentence-ending word closed the first line although the next word
\* came without pause, the line held one word of two, and the duration was
\* below the maximum
C26_Witness ==
    /\ Done
    /\ Len(lines) >= 2
    /\ lines[1].members = << 1 >>
    /\ lines[2].members[1] = 2
    /\ EndsSentence(words[1].word)
    /\ words[2].start - words[1].end < generator.pause_threshold
    /\ generator.words_per_line = 2
    /\ words[2].end - words[1].start < generator.max_line_duration

\* one of the four triggers holds at word q, the buffer being line k and
\* its last word p
SomeTrigger(k, p, q) ==
    \/ words[q].start - words[p].end >= generator.pause_threshold
    \/ Len(lines[k].members) >= generator.words_per_line
    \/ words[q].end - lines[k].start >= generator.max_line_duration
    \/ EndsSentence(words[p].word)

\* C27: a break between two consecutive non-blank words happens only if one
\* of the four triggers holds at the second word; when none holds the word
\* is appended to the open line.
C27_BreakOnlyOnTrigger ==
    Done =>
        \A k \in 1..(Len(lines) - 1) :
            LET p == Last(lines[k].members)
                q == lines[k + 1].members[1]
            IN  SomeTrigger(k, p, q)

C29_CleanupFailureChangesNothing ==
    [][ \A r \in Requests :
          /\ (pc[r] = "cleanup" /\ pc'[r] # "cleanup") =>
                /\ pc'[r] = "returned"
                /\ response'[r] = Response(200, "None", "Transcription completed")
                /\ db' = db
                /\ session' = session
          /\ ( /\ pc[r] # "returned"
               /\ pc'[r] = "returned"
               /\ db'[generate_id(r)].status = "failed" ) =>
                /\ response'[r].status = 500
                /\ response'[r].message = db'[generate_id(r)].error_message
          /\ pc'[r] # pc[r] =>
                \A o \in Requests \ {r} :
                    /\ pc'[o] = pc[o]
                    /\ response'[o] = response[o]
                    /\ db'[generate_id(o)] = db[generate_id(o)]
      ]_vars

\* the upload could not be removed, the WAV file was removed all the same,
\* and the job is completed and answered with 200; the other job failed in
\* a stage, was answered with 500, and its upload could not be removed
C29_Witness ==
    /\ pc["transcribe_upload"] = "returned"
    /\ db[generate_id("transcribe_upload")].status = "completed"
    /\ response["transcribe_upload"].status = 200
    /\ files[generate_id("transcribe_upload")]["upload"] = "full"
    /\ files[generate_id("transcribe_upload")]["wav"] = "absent"
    /\ pc["transcribe_from_url"] = "returned"
    /\ db[generate_id("transcribe_from_url")].status = "failed"
    /\ Invoked("transcribe_from_url", "transcribe")
    /\ response["transcribe_from_url"].status = 500
    /\ files[generate_id("transcribe_from_url")]["upload"] = "full"
    /\ files[generate_id("transcribe_from_url")]["wav"] = "absent"

\* generate_all returned success for the job of request r
GenerateAllSucceeded(r) ==
    \E k \in 1..Len(calls[r]) :
        calls[r][k].stage = "generate_all" /\ calls[r][k].success

\* C30: whenever generate_all has returned success for a job, and so
\* whenever the job's record is 'completed', its .srt, .vtt and .json files
\* have all been written in full.
C30_SuccessMeansAllFilesWritten ==
    \A r \in Requests :
        (GenerateAllSucceeded(r) \/ db[generate_id(r)].status = "completed") =>
            \A f \in SubtitleFiles : files[generate_id(r)][f] = "full"

\* C31: a request that has returned without a committed job record (its
\* input rejected, its download or its file write failed, or an exception
\* came before the first commit) has left no file in the upload folder.
C31_NoRecordNoUploadFile ==
    \A r \in Requests :
        (Returned(r) /\ db[generate_id(r)].status = "none") =>
            files[generate_id(r)]["upload"] = "absent"

(***************************************************************************)
(* Claims about the lines of well-formed word lists (SegSpec) and about    *)
(* the word count of the document (JsonSpec)                               *)
(***************************************************************************)
\* C32: when the words are in chronological order and do not overlap, the
\* returned lines are in chronological order and do not overlap: each line
\* ends no later than the next one starts.
C32_LinesDoNotOverlap ==
    (Done /\ Chronological(words) /\ NonOverlapping(words)) =>
        \A k \in 1..(Len(lines) - 1) :
            /\ lines[k].end <= lines[k + 1].start
            /\ lines[k].start <= lines[k + 1].start

\* two lines of a well-formed list with a blank word between them, the
\* first line lasting some time and ending before the second starts
C32_Witness ==
    /\ Done
    /\ Chronological(words)
    /\ NonOverlapping(words)
    /\ Len(lines) = 2
    /\ \E m \in 1..Len(words) : IsBlank(words[m].word)
    /\ lines[1].start < lines[1].end
    /\ lines[1].end < lines[2].start

\* the number of words held by the lines
RECURSIVE WordsInLines(_)
WordsInLines(ls) ==
    IF Len(ls) = 0 THEN 0 ELSE Len(ls[1].members) + WordsInLines(Tail(ls))

\* C33: in the document generate_all produces (there is at least one
\* line), metadata.total_words is the number of words in the document's
\* lines, that is the number of non-blank input words.
C33_TotalWordsCountsWordsInLines ==
    (Generated /\ Len(lines) > 0) =>
        /\ json_data[1].metadata.total_words = WordsInLines(json_data[1].lines)
        /\ json_data[1].metadata.total_words = Len(NonBlankTexts(words))

=============================================================================
